---- MODULE Spec2Model ----
(***************************************************************************)
(* Study-session engine of the YouTube flashcards bot (src/main.py).       *)
(*                                                                         *)
(* The bot is one asyncio event loop.  Update handlers (commands and       *)
(* inline-button callbacks) are run one at a time by the Application       *)
(* (main builds it with the default, non-concurrent update processing);    *)
(* the JobQueue runs send_next_card for a repeating job as its own task,   *)
(* at most one running instance per job.  Tasks interleave at `await`s.    *)
(* Every access to STATE is made with STATE_LOCK held; asyncio.Lock hands  *)
(* the lock to its waiters in arrival order.                               *)
(*                                                                         *)
(* A step of the model is the code a task runs between two awaits.         *)
(* The fields title, video_url and transcript of a session are set         *)
(* together with video_id and never read by the scheduling code; they are  *)
(* not part of the state here.                                             *)
(***************************************************************************)
EXTENDS Integers, Sequences, FiniteSets, TLC

(* ------------------------------ bounds -------------------------------- *)

\* Job objects that can exist at once (armed, or removed with a tick still running).
MaxJobs == 2

\* save_db calls that fail in one behaviour.
MaxFlushFailures == 1

\* Process restarts in one behaviour.
MaxRestarts == 1

(* ------------------------- program constants -------------------------- *)

DefaultInterval == 300
DefaultChunk == 90
MinInterval == 30
MinChunk == 30
MaxChunk == 600

(* ------------------------------ inputs -------------------------------- *)

Users == {"u1"}
JobIds == 1..MaxJobs

None == "None"
VideoIds == {"vid"}

\* Durations get_video_meta can return (0: iso8601_duration_to_seconds on a
\* duration it does not match, such as a live stream's).
Durations == {0, 200}

\* What get_video_meta returns for /add: None, or a title and a duration.
NoMeta == [found |-> FALSE, duration |-> 0]
Metas == {NoMeta} \cup {[found |-> TRUE, duration |-> d] : d \in Durations}

\* The argument of /setinterval and /setchunk, by the form parse_duration_str
\* tells apart: blank; "h:m:s" or "m:s" (clock); "<h>h<m>m<s>s" with at least
\* one part (units); decimal digits only (digits); characters for which
\* str.isdigit() holds and int() has no value, such as a superscript two
\* (superscript); anything else (other).
Text(form, h, m, s) == [form |-> form, h |-> h, m |-> m, s |-> s]

\* What parse_duration_str returns: None, or a count of seconds.
Unparsed == [parsed |-> FALSE, secs |-> 0]
Parsed(n) == [parsed |-> TRUE, secs |-> n]

\* int(s) of the last branch raises ValueError.
IntRaises(x) == x.form = "superscript"

parse_duration_str(x) ==
    IF x.form \in {"clock", "units"} THEN Parsed(x.h * 3600 + x.m * 60 + x.s)
    ELSE IF x.form = "digits" THEN Parsed(x.s)
    ELSE Unparsed

\* "", "abc", "²", "0", "29s", "0:30"
IntervalInputs ==
    {Text("blank", 0, 0, 0), Text("other", 0, 0, 0), Text("superscript", 0, 0, 0),
     Text("digits", 0, 0, 0), Text("units", 0, 0, 29), Text("clock", 0, 0, 30)}

\* "abc", "²", "0s", "29", "0:30", "10m", "10m1s"
ChunkInputs ==
    {Text("other", 0, 0, 0), Text("superscript", 0, 0, 0), Text("units", 0, 0, 0),
     Text("digits", 0, 0, 29), Text("clock", 0, 0, 30), Text("units", 0, 10, 0),
     Text("units", 0, 10, 1)}

\* Outcomes of one save_db call: written; open() failed (file untouched);
\* open() truncated the file and json.dump failed (file unreadable).
FlushOutcomes == {"ok", "open_failed", "dump_failed"}

Min(a, b) == IF a <= b THEN a ELSE b

VARIABLES
    STATE_users,  \* STATE["users"]: a function from the known user ids to sessions
    STATE_LOCK,   \* [locked, waiters]: the asyncio.Lock and its FIFO of waiting tasks
    db,           \* the users mapping DB_FILE holds (empty: no file, or unreadable)
    job_queue,    \* job id -> the repeating job, armed or not
    ticks,        \* job id -> the running instance of send_next_card for that job
    cmd,          \* the update handler waiting for the lock or sending inside it
    sent,         \* the message the last step handed to the bot (NoMsg: none)
    removed,      \* the jobs the last step removed from the job queue
    nfail,        \* save_db calls that have failed so far
    nrestart,     \* restarts so far
    run,          \* the windows of the cards sent since the cursor was last 0
    run_ok,       \* chunk_sec, duration and the process are those the run began with
    slice_call    \* a call of slice_transcript_text: its arguments, and what it returned

vars == <<STATE_users, STATE_LOCK, db, job_queue, ticks, cmd, sent, removed, nfail,
          nrestart, run, run_ok, slice_call>>

(* ------------------------------ sessions ------------------------------ *)

NoUsers == [u \in {} |-> 0]

\* ensure_user's defaults.
DefaultSession ==
    [video_id |-> None, duration |-> 0,
     interval_sec |-> DefaultInterval, chunk_sec |-> DefaultChunk,
     current_start_sec |-> 0, active |-> FALSE, job_name |-> None]

ensure_user(S, u) ==
    IF u \in DOMAIN S THEN S
    ELSE [x \in DOMAIN S \cup {u} |-> IF x = u THEN DefaultSession ELSE S[x]]

\* The job name /startsession gives the user's job ("study_<uid>").
JobName(u) == "study_" \o u

\* S with the session of u replaced.
Put(S, u, s) == [S EXCEPT ![u] = s]

(* ----------------------------- persistence ---------------------------- *)

\* What DB_FILE holds after save_db() on users mapping S.
save_db(S, outcome) ==
    CASE outcome = "ok" -> S
      [] outcome = "open_failed" -> db
      [] OTHER -> NoUsers

\* save_db returns normally only when the write succeeded; otherwise the
\* exception of open() or json.dump leaves it.
Raises(outcome) == outcome # "ok"

\* The outcomes save_db may have in the current state.
Outcomes == IF nfail < MaxFlushFailures THEN FlushOutcomes ELSE {"ok"}

Flush(S, outcome) ==
    /\ db' = save_db(S, outcome)
    /\ nfail' = IF Raises(outcome) THEN nfail + 1 ELSE nfail

NoFlush == UNCHANGED <<db, nfail>>

\* load_db at process start: the users DB_FILE holds.
load_db == db

(* -------------------------------- lock -------------------------------- *)

TickTask(j) == <<"job", j>>
CmdTask == <<"cmd", 0>>

\* asyncio.Lock.acquire returns at once when the lock is free and nobody waits.
LockFree == ~STATE_LOCK.locked /\ STATE_LOCK.waiters = <<>>

\* Otherwise the task joins the waiters.
Enqueue(p) == [STATE_LOCK EXCEPT !.waiters = Append(@, p)]

\* CanEnter without the look at whether the lock is held.
CanEnterUnlocked(p) ==
    /\ STATE_LOCK.waiters # <<>>
    /\ Head(STATE_LOCK.waiters) = p

\* p is the waiter the released lock goes to.
CanEnter(p) ==
    /\ ~STATE_LOCK.locked
    /\ STATE_LOCK.waiters # <<>>
    /\ Head(STATE_LOCK.waiters) = p

Held(W) == [locked |-> TRUE, waiters |-> W]
Released(W) == [locked |-> FALSE, waiters |-> W]

(* ------------------------------ messages ------------------------------ *)

\* What a step hands to context.bot.send_message or to reply_text: a card with
\* its window, one of send_next_card's notices ("inactive", "novideo",
\* "finished"), /startsession's refusal ("start_refused"), or the reply of a
\* handler ("reply").
Msg(kind, a, b) == [kind |-> kind, start |-> a, end |-> b]
NoMsg == Msg("none", 0, 0)
Send(kind) == sent' = Msg(kind, 0, 0)
Silent == sent' = NoMsg

\* The reply a handler sends after its `async with` block: none when save_db raised.
ReplyUnless(outcome, kind) == sent' = IF Raises(outcome) THEN NoMsg ELSE Msg(kind, 0, 0)

(* ------------------------------ job queue ----------------------------- *)

NoJob == [armed |-> FALSE, user |-> None, interval |-> 0, first |-> FALSE]
IdleTick == [pc |-> "idle", user |-> None, start |-> 0, end |-> 0, race |-> "none"]

Armed(Q) == {j \in JobIds : Q[j].armed}
InFlight(j) == ticks[j].pc # "idle"

\* context.job_queue.get_jobs_by_name(name)
get_jobs_by_name(Q, name) == {j \in JobIds : Q[j].armed /\ JobName(Q[j].user) = name}

\* j.schedule_removal() for every j in js
schedule_removal(Q, js) == [j \in JobIds |-> IF j \in js THEN NoJob ELSE Q[j]]

\* context.job_queue.run_repeating(send_next_card, interval, first=0, data, name)
run_repeating(Q, j, u, interval) ==
    [Q EXCEPT ![j] = [armed |-> TRUE, user |-> u, interval |-> interval, first |-> TRUE]]

\* The job queue becomes Q2.
SetJobs(Q2) ==
    /\ job_queue' = Q2
    /\ removed' = Armed(job_queue) \ Armed(Q2)

SameJobs == job_queue' = job_queue /\ removed' = {}

\* A slot for a new Job object: neither an armed job's nor a running tick's.
FreeSlots == {j \in JobIds : ~job_queue[j].armed /\ ~InFlight(j)}
NewSlot == CHOOSE j \in FreeSlots : \A k \in FreeSlots : j <= k

(* --------------------------- send_next_card --------------------------- *)

StopOps == {"stop", "callback_stop"}
NoCmd == [op |-> "none", user |-> None, vid |-> None, arg |-> 0,
          pc |-> "idle", note |-> "none"]

\* A stop handler has reached `async with STATE_LOCK` and is not yet let in.
StopWaiting == cmd.op \in StopOps /\ cmd.pc = "wait"

\* start + chunk, not held to the duration.
WindowEndUnclamped(s) == s.current_start_sec + s.chunk_sec

\* min(start + chunk, session["duration"])
WindowEnd(s) == Min(s.current_start_sec + s.chunk_sec, s.duration)

\* Branch without the look at "active".
BranchUnchecked(S, u) ==
    IF u \notin DOMAIN S THEN "inactive"
    ELSE IF S[u].video_id = None \/ S[u].duration = 0 THEN "novideo"
    ELSE IF S[u].current_start_sec >= S[u].duration THEN "finished"
    ELSE "card"

\* The branch send_next_card takes once it holds the lock.
Branch(S, u) ==
    IF u \notin DOMAIN S \/ ~S[u].active THEN "inactive"
    ELSE IF S[u].video_id = None \/ S[u].duration = 0 THEN "novideo"
    ELSE IF S[u].current_start_sec >= S[u].duration THEN "finished"
    ELSE "card"

\* send_next_card from the lock's acquisition to its first await: the users
\* mapping, where the task stands then, and whether save_db was called.
TickEntry(S, u, outcome) ==
    LET br == Branch(S, u) IN
    IF br = "finished"
    THEN [users |-> Put(S, u, [S[u] EXCEPT !.active = FALSE]),
          pc |-> IF Raises(outcome) THEN "raised" ELSE "send_finished",
          saves |-> TRUE]
    ELSE [users |-> S, pc |-> "send_" \o br, saves |-> FALSE]

\* TickExit with the cursor left where the card began.
TickExitStays(S, u, pc, end) ==
    [users |-> S, removes |-> pc # "send_card", saves |-> pc = "send_card"]

\* TickExit without job.schedule_removal().
TickExitKeepsJob(S, u, pc, end) ==
    IF pc = "send_card"
    THEN [users |-> Put(S, u, [S[u] EXCEPT !.current_start_sec = end]),
          removes |-> FALSE, saves |-> TRUE]
    ELSE [users |-> S, removes |-> FALSE, saves |-> FALSE]

\* send_next_card after its send_message returned: the users mapping, whether
\* the job is removed, and whether save_db is called.
TickExit(S, u, pc, end) ==
    IF pc = "send_card"
    THEN [users |-> Put(S, u, [S[u] EXCEPT !.current_start_sec = end]),
          removes |-> FALSE, saves |-> TRUE]
    ELSE [users |-> S, removes |-> TRUE, saves |-> FALSE]

Sending == {"send_inactive", "send_novideo", "send_finished", "send_card"}

\* The message of each branch.
TickMessage(t) ==
    IF t.pc = "send_card" THEN Msg("card", t.start, t.end)
    ELSE IF t.pc = "send_inactive" THEN Msg("inactive", 0, 0)
    ELSE IF t.pc = "send_novideo" THEN Msg("novideo", 0, 0)
    ELSE Msg("finished", 0, 0)

\* The windows of the run in progress, with the card for [a, b) added.
RunAfterCard(a, b) == IF run_ok THEN Append(run, <<a, b>>) ELSE run

\* send_next_card of job j, for user u, from the moment it has the lock to its
\* send_message, or to the exception save_db raises.  W: the waiters left.
send_next_card_locked(j, u, race, W) ==
    \E outcome \in Outcomes :
      LET r == TickEntry(STATE_users, u, outcome) IN
      /\ STATE_users' = r.users
      /\ IF r.saves THEN Flush(r.users, outcome) ELSE outcome = "ok" /\ NoFlush
      /\ IF r.pc = "raised"
         THEN /\ ticks' = [ticks EXCEPT ![j] = IdleTick]
              /\ STATE_LOCK' = Released(W)
         ELSE /\ ticks' = [ticks EXCEPT ![j] =
                    [pc |-> r.pc, user |-> u, race |-> race,
                     start |-> IF r.pc = "send_card"
                               THEN STATE_users[u].current_start_sec ELSE 0,
                     end |-> IF r.pc = "send_card"
                             THEN WindowEnd(STATE_users[u]) ELSE 0]]
              /\ STATE_LOCK' = Held(W)

\* The trigger of job j comes due (the first time at once, first=0, then every
\* interval) and the JobQueue starts send_next_card; a run is skipped while
\* the job's previous one has not returned.  The task takes the lock at
\* once, or waits for it.
Fire(j) ==
    /\ job_queue[j].armed
    /\ ~InFlight(j)
    /\ job_queue' = [job_queue EXCEPT ![j].first = FALSE]
    /\ removed' = {}
    /\ IF LockFree
       THEN send_next_card_locked(j, job_queue[j].user, "none", <<>>)
       ELSE /\ ticks' = [ticks EXCEPT ![j] = [IdleTick EXCEPT
                             !.pc = "wait", !.user = job_queue[j].user]]
            /\ STATE_LOCK' = Enqueue(TickTask(j))
            /\ NoFlush
            /\ UNCHANGED STATE_users
    /\ Silent
    /\ UNCHANGED <<cmd, nrestart, run, run_ok, slice_call>>

\* The lock is released to the waiting send_next_card of job j.
TickEnter(j) ==
    /\ ticks[j].pc = "wait"
    /\ CanEnter(TickTask(j))
    /\ send_next_card_locked(j, ticks[j].user, ticks[j].race, Tail(STATE_LOCK.waiters))
    /\ Silent
    /\ SameJobs
    /\ UNCHANGED <<cmd, nrestart, run, run_ok, slice_call>>

\* send_message returns: the message is out, and send_next_card runs to its end.
TickFinish(j) ==
    /\ ticks[j].pc \in Sending
    /\ \E outcome \in Outcomes :
         LET t == ticks[j]
             r == TickExit(STATE_users, t.user, t.pc, t.end)
         IN /\ sent' = TickMessage(t)
            /\ STATE_users' = r.users
            /\ IF r.removes THEN SetJobs(schedule_removal(job_queue, {j})) ELSE SameJobs
            /\ IF r.saves THEN Flush(r.users, outcome) ELSE outcome = "ok" /\ NoFlush
            /\ run' = IF t.pc = "send_card" THEN RunAfterCard(t.start, t.end) ELSE run
            \* a stop handler waiting for the lock has seen this tick's card go out
            /\ cmd' = IF StopWaiting /\ t.pc = "send_card"
                      THEN [cmd EXCEPT !.note = "card"] ELSE cmd
    /\ ticks' = [ticks EXCEPT ![j] = IdleTick]
    /\ STATE_LOCK' = Released(STATE_LOCK.waiters)
    /\ UNCHANGED <<nrestart, run_ok, slice_call>>

(* --------------------------- update handlers -------------------------- *)
(* Each handler is given as the body of its `async with STATE_LOCK` block  *)
(* together with the reply that follows the block: nothing of the session  *)
(* is touched after the block.  W is the lock's waiters once the handler   *)
(* is in.                                                                  *)

\* /start
start_cmd_locked(u, W) ==
    \E outcome \in Outcomes :
      /\ STATE_users' = ensure_user(STATE_users, u)
      /\ Flush(ensure_user(STATE_users, u), outcome)
      /\ ReplyUnless(outcome, "reply")
      /\ STATE_LOCK' = Released(W)
      /\ cmd' = NoCmd
      /\ SameJobs
      /\ UNCHANGED <<ticks, run, run_ok>>

\* The session /add leaves.
add_update(s, vid, duration) ==
    [s EXCEPT !.video_id = vid, !.duration = duration, !.current_start_sec = 0]

add_cmd_locked(u, vid, duration, W) ==
    \E outcome \in Outcomes :
      LET S == ensure_user(STATE_users, u)
          S2 == Put(S, u, add_update(S[u], vid, duration))
      IN /\ STATE_users' = S2
         /\ Flush(S2, outcome)
         /\ ReplyUnless(outcome, "reply")
         /\ STATE_LOCK' = Released(W)
         /\ cmd' = NoCmd
         /\ SameJobs
         /\ run' = <<>>
         /\ run_ok' = TRUE
         /\ UNCHANGED ticks

\* `not secs or secs < 30`
IntervalRejected(p) == ~p.parsed \/ p.secs = 0 \/ p.secs < MinInterval

\* `not secs or secs < 30 or secs > 600`
ChunkRejected(p) == ~p.parsed \/ p.secs = 0 \/ p.secs < MinChunk \/ p.secs > MaxChunk

setinterval_cmd_locked(u, secs, W) ==
    \E outcome \in Outcomes :
      LET S == ensure_user(STATE_users, u)
          S2 == Put(S, u, [S[u] EXCEPT !.interval_sec = secs])
      IN /\ STATE_users' = S2
         /\ Flush(S2, outcome)
         /\ ReplyUnless(outcome, "reply")
         /\ STATE_LOCK' = Released(W)
         /\ cmd' = NoCmd
         /\ SameJobs
         /\ UNCHANGED <<ticks, run, run_ok>>

setchunk_cmd_locked(u, secs, W) ==
    \E outcome \in Outcomes :
      LET S == ensure_user(STATE_users, u)
          S2 == Put(S, u, [S[u] EXCEPT !.chunk_sec = secs])
          ok == run_ok /\ (run = <<>> \/ secs = S[u].chunk_sec)
      IN /\ STATE_users' = S2
         /\ Flush(S2, outcome)
         /\ ReplyUnless(outcome, "reply")
         /\ STATE_LOCK' = Released(W)
         /\ cmd' = NoCmd
         /\ SameJobs
         /\ run_ok' = ok
         /\ run' = IF ok THEN run ELSE <<>>
         /\ UNCHANGED ticks

\* startsession_session with the cursor always put back to 0.
startsession_session_rewinds(s, u) ==
    [s EXCEPT !.active = TRUE, !.current_start_sec = 0, !.job_name = JobName(u)]

\* startsession_session with the cursor left where it is.
startsession_session_as_is(s, u) == [s EXCEPT !.active = TRUE, !.job_name = JobName(u)]

\* /startsession inside the lock, with a video configured: the session, and
\* the job queue with the user's jobs removed and job j armed.
startsession_session(s, u) ==
    [s EXCEPT !.active = TRUE,
              !.current_start_sec = IF s.current_start_sec >= s.duration
                                    THEN 0 ELSE s.current_start_sec,
              !.job_name = JobName(u)]

\* startsession_jobs without the removal of the jobs of that name.
startsession_jobs_kept(Q, s, u, j) == run_repeating(Q, j, u, s.interval_sec)

startsession_jobs(Q, s, u, j) ==
    run_repeating(schedule_removal(Q, get_jobs_by_name(Q, JobName(u))),
                  j, u, s.interval_sec)

\* /startsession that refuses nobody.
StartNeverRefused(s) == FALSE

\* `if not session.get("video_id")`
StartRefused(s) == s.video_id = None

startsession_cmd_locked(u, W) ==
    LET S == ensure_user(STATE_users, u) IN
    IF StartRefused(S[u])
    THEN \* the refusal is sent inside the `async with` block
         /\ STATE_users' = S
         /\ cmd' = [NoCmd EXCEPT !.op = "startsession", !.user = u, !.pc = "reply_locked"]
         /\ STATE_LOCK' = Held(W)
         /\ NoFlush
         /\ Silent
         /\ SameJobs
         /\ UNCHANGED <<ticks, run, run_ok>>
    ELSE \E outcome \in Outcomes :
         LET S2 == Put(S, u, startsession_session(S[u], u))
             j == NewSlot
         IN /\ STATE_users' = S2
            /\ SetJobs(startsession_jobs(job_queue, S[u], u, j))
            /\ ticks' = [ticks EXCEPT ![j] = IdleTick]
            /\ Flush(S2, outcome)
            /\ ReplyUnless(outcome, "reply")
            /\ STATE_LOCK' = Released(W)
            /\ cmd' = NoCmd
            /\ IF S2[u].current_start_sec # S[u].current_start_sec
               THEN run' = <<>> /\ run_ok' = TRUE
               ELSE UNCHANGED <<run, run_ok>>

\* The body of /stop and of the "stop" button inside the lock.
stop_session(s) == [s EXCEPT !.active = FALSE, !.job_name = None]

stop_jobs(Q, s) ==
    IF s.job_name # None THEN schedule_removal(Q, get_jobs_by_name(Q, s.job_name))
    ELSE Q

\* A stop handler is let in: the ticks still waiting for the lock come after it.
StopOvertakes ==
    [j \in JobIds |-> IF ticks[j].pc = "wait"
                      THEN [ticks[j] EXCEPT !.race = "stop_first"] ELSE ticks[j]]

stop_cmd_locked(u, W) ==
    \E outcome \in Outcomes :
      LET S == ensure_user(STATE_users, u)
          S2 == Put(S, u, stop_session(S[u]))
      IN /\ STATE_users' = S2
         /\ SetJobs(stop_jobs(job_queue, S[u]))
         /\ Flush(S2, outcome)
         /\ ReplyUnless(outcome, "reply")
         /\ STATE_LOCK' = Released(W)
         /\ cmd' = NoCmd
         /\ ticks' = StopOvertakes
         /\ UNCHANGED <<run, run_ok>>

\* callbacks, q.data == "stop"
callbacks_stop_locked(u, W) ==
    /\ IF u \in DOMAIN STATE_users
       THEN \E outcome \in Outcomes :
            LET S2 == Put(STATE_users, u, stop_session(STATE_users[u])) IN
            /\ STATE_users' = S2
            /\ SetJobs(stop_jobs(job_queue, STATE_users[u]))
            /\ Flush(S2, outcome)
            /\ ReplyUnless(outcome, "reply")
       ELSE /\ Send("reply")
            /\ NoFlush
            /\ SameJobs
            /\ UNCHANGED STATE_users
    /\ STATE_LOCK' = Released(W)
    /\ cmd' = NoCmd
    /\ ticks' = StopOvertakes
    /\ UNCHANGED <<run, run_ok>>

\* /status: ensure_user, and no save_db
status_cmd_locked(u, W) ==
    /\ STATE_users' = ensure_user(STATE_users, u)
    /\ Send("reply")
    /\ STATE_LOCK' = Released(W)
    /\ cmd' = NoCmd
    /\ NoFlush
    /\ SameJobs
    /\ UNCHANGED <<ticks, run, run_ok>>

Critical(op, u, vid, arg, W) ==
    CASE op = "start" -> start_cmd_locked(u, W)
      [] op = "add" -> add_cmd_locked(u, vid, arg, W)
      [] op = "setinterval" -> setinterval_cmd_locked(u, arg, W)
      [] op = "setchunk" -> setchunk_cmd_locked(u, arg, W)
      [] op = "startsession" -> startsession_cmd_locked(u, W)
      [] op = "stop" -> stop_cmd_locked(u, W)
      [] op = "callback_stop" -> callbacks_stop_locked(u, W)
      [] op = "status" -> status_cmd_locked(u, W)

\* The Application runs one handler at a time.  A handler that reaches
\* `async with STATE_LOCK` goes in at once when the lock is free, and waits
\* otherwise.
Handle(op, u, vid, arg) ==
    /\ cmd.pc = "idle"
    /\ IF LockFree
       THEN Critical(op, u, vid, arg, <<>>)
       ELSE /\ cmd' = [op |-> op, user |-> u, vid |-> vid, arg |-> arg,
                       pc |-> "wait", note |-> "none"]
            /\ STATE_LOCK' = Enqueue(CmdTask)
            /\ NoFlush
            /\ Silent
            /\ SameJobs
            /\ UNCHANGED <<STATE_users, ticks, run, run_ok>>
    /\ UNCHANGED <<nrestart, slice_call>>

\* A handler replies and returns without touching the session.
Reject ==
    /\ cmd.pc = "idle"
    /\ Send("reply")
    /\ NoFlush
    /\ SameJobs
    /\ UNCHANGED <<STATE_users, STATE_LOCK, ticks, cmd, nrestart, run, run_ok, slice_call>>

start_cmd(u) == Handle("start", u, None, 0)

\* /add <url>: extract_video_id gave vid, get_video_meta gave meta.
add_cmd(u, vid, meta) ==
    IF vid = None \/ ~meta.found THEN Reject
    ELSE Handle("add", u, vid, meta.duration)

\* A handler ends with an exception before it has sent or changed anything.
Abort ==
    /\ cmd.pc = "idle"
    /\ Silent
    /\ NoFlush
    /\ SameJobs
    /\ UNCHANGED <<STATE_users, STATE_LOCK, ticks, cmd, nrestart, run, run_ok, slice_call>>

\* /setinterval <x>
setinterval_cmd(u, x) ==
    IF IntRaises(x) THEN Abort
    ELSE IF IntervalRejected(parse_duration_str(x)) THEN Reject
    ELSE Handle("setinterval", u, None, parse_duration_str(x).secs)

\* /setchunk <x>
setchunk_cmd(u, x) ==
    IF IntRaises(x) THEN Abort
    ELSE IF ChunkRejected(parse_duration_str(x)) THEN Reject
    ELSE Handle("setchunk", u, None, parse_duration_str(x).secs)

startsession_cmd(u) == FreeSlots # {} /\ Handle("startsession", u, None, 0)

stop_cmd(u) == Handle("stop", u, None, 0)

status_cmd(u) == Handle("status", u, None, 0)

callbacks_stop(u) == Handle("callback_stop", u, None, 0)

\* context.job in the context a callback is given: the Job for a job
\* callback of the JobQueue, None for an update handler.
ContextJob(caller) == IF caller = "job_queue" THEN "Job" ELSE None

\* callbacks, q.data == "skip": the markup is removed, the reply sent, and
\* send_next_card is awaited with the handler's own context.  Its first
\* statements read context.job.data: with no job the AttributeError ends the
\* handler before `async with STATE_LOCK`.
callbacks_skip(u) ==
    /\ ContextJob("callbacks") = None
    /\ Reject

\* The lock is released to the waiting handler.
Resume ==
    /\ cmd.pc = "wait"
    /\ CanEnter(CmdTask)
    /\ Critical(cmd.op, cmd.user, cmd.vid, cmd.arg, Tail(STATE_LOCK.waiters))
    /\ UNCHANGED <<nrestart, slice_call>>

\* /startsession's refusal is out; the `async with` block ends.
startsession_refused ==
    /\ cmd.pc = "reply_locked"
    /\ Send("start_refused")
    /\ cmd' = NoCmd
    /\ STATE_LOCK' = Released(STATE_LOCK.waiters)
    /\ NoFlush
    /\ SameJobs
    /\ UNCHANGED <<STATE_users, ticks, nrestart, run, run_ok, slice_call>>

\* The process ends and main() runs again: every task and job is gone, and
\* load_db reads the sessions back.
Restart ==
    /\ nrestart < MaxRestarts
    /\ nrestart' = nrestart + 1
    /\ STATE_users' = load_db
    /\ STATE_LOCK' = Released(<<>>)
    /\ job_queue' = [j \in JobIds |-> NoJob]
    /\ removed' = {}
    /\ ticks' = [j \in JobIds |-> IdleTick]
    /\ cmd' = NoCmd
    /\ run' = <<>>
    /\ run_ok' = \A u \in DOMAIN load_db : load_db[u].current_start_sec = 0
    /\ NoFlush
    /\ Silent
    /\ UNCHANGED slice_call

(* ------------------------- slice_transcript_text ----------------------- *)
(* A text is a sequence of characters; " " is the whitespace str.strip()    *)
(* removes.  A transcript item is given with int(item["start"]) and         *)
(* int(item["duration"]) already taken.                                     *)

\* A transcript has at most MaxSegments items, which start before MaxTime.
MaxSegments == 2
MaxTime == 2

\* max_chars: int = 700
DefaultMaxChars == 700

Ellipsis == <<".", ".", ".">>

\* "a", " ", "bc "
Texts == {<<"a">>, <<" ">>, <<"b", "c", " ">>}
SegDurations == {0, 1, 2}
Segments == [start : 0..(MaxTime - 1), duration : SegDurations, text : Texts]
Transcripts == UNION {[1..n -> Segments] : n \in 0..MaxSegments}
Times == 0..MaxTime
MaxCharsInputs == {2, 3, 4, DefaultMaxChars}

RECURSIVE lstrip(_)
lstrip(t) == IF t = <<>> THEN <<>>
             ELSE IF Head(t) = " " THEN lstrip(Tail(t)) ELSE t

RECURSIVE rstrip(_)
rstrip(t) == IF t = <<>> THEN <<>>
             ELSE IF t[Len(t)] = " " THEN rstrip(SubSeq(t, 1, Len(t) - 1)) ELSE t

\* str.strip()
strip(t) == rstrip(lstrip(t))

\* IncludedSegment with a segment that only touches the range let in.
IncludedTouching(item, start, end) ==
    item.start + item.duration >= start /\ item.start <= end

\* `if e > start and s < end`
IncludedSegment(item, start, end) ==
    item.start + item.duration > start /\ item.start < end

\* chunks: the stripped texts of the items let in, in the transcript's order
RECURSIVE chunks(_, _, _)
chunks(transcript, start, end) ==
    IF transcript = <<>> THEN <<>>
    ELSE (IF IncludedSegment(Head(transcript), start, end)
          THEN <<strip(Head(transcript).text)>> ELSE <<>>)
         \o chunks(Tail(transcript), start, end)

IsText(c) == c # <<>>

\* " ".join(...)
RECURSIVE join(_)
join(cs) == IF cs = <<>> THEN <<>>
            ELSE IF Tail(cs) = <<>> THEN Head(cs)
            ELSE Head(cs) \o <<" ">> \o join(Tail(cs))

\* text before the cut: " ".join([c for c in chunks if c]).strip()
JoinedText(transcript, start, end) ==
    strip(join(SelectSeq(chunks(transcript, start, end), IsText)))

\* text[:n], n negative counting from the end
PyPrefix(text, n) ==
    IF n >= 0 THEN SubSeq(text, 1, Min(n, Len(text)))
    ELSE SubSeq(text, 1, IF Len(text) + n > 0 THEN Len(text) + n ELSE 0)

slice_transcript_text(transcript, start, end, max_chars) ==
    IF transcript = <<>> THEN <<>>
    ELSE LET text == JoinedText(transcript, start, end) IN
         IF Len(text) > max_chars THEN PyPrefix(text, max_chars - 3) \o Ellipsis
         ELSE text

NoCall == [transcript |-> <<>>, start |-> 0, mid |-> 0, end |-> 0, max_chars |-> 0,
           pc |-> "none", left |-> <<>>, right |-> <<>>, whole |-> <<>>, cut |-> <<>>]

\* The calls: a transcript and start <= mid <= end.
Calls ==
    {[NoCall EXCEPT !.transcript = tr, !.start = a, !.mid = m, !.end = b, !.pc = "ready"] :
        tr \in Transcripts,
        a \in Times, m \in Times, b \in Times}

\* The two adjacent windows and their union, each as send_next_card calls
\* slice_transcript_text (max_chars left at its default).
SliceWindows ==
    /\ slice_call.pc = "ready"
    /\ slice_call.start <= slice_call.mid /\ slice_call.mid <= slice_call.end
    /\ LET c == slice_call IN
       slice_call' = [c EXCEPT
           !.pc = "windows",
           !.max_chars = DefaultMaxChars,
           !.left = slice_transcript_text(c.transcript, c.start, c.mid, DefaultMaxChars),
           !.right = slice_transcript_text(c.transcript, c.mid, c.end, DefaultMaxChars),
           !.whole = slice_transcript_text(c.transcript, c.start, c.end, DefaultMaxChars)]
    /\ UNCHANGED <<STATE_users, STATE_LOCK, db, job_queue, ticks, cmd, sent, removed,
                   nfail, nrestart, run, run_ok>>

\* One call with max_chars given.
SliceCut(max_chars) ==
    /\ slice_call.pc = "ready"
    /\ slice_call.start <= slice_call.end
    /\ LET c == slice_call IN
       slice_call' = [c EXCEPT
           !.pc = "cut",
           !.max_chars = max_chars,
           !.cut = slice_transcript_text(c.transcript, c.start, c.end, max_chars)]
    /\ UNCHANGED <<STATE_users, STATE_LOCK, db, job_queue, ticks, cmd, sent, removed,
                   nfail, nrestart, run, run_ok>>

\* The module's state at import.
ProcessStart ==
    /\ STATE_users = NoUsers
    /\ STATE_LOCK = Released(<<>>)
    /\ db = NoUsers
    /\ job_queue = [j \in JobIds |-> NoJob]
    /\ ticks = [j \in JobIds |-> IdleTick]
    /\ cmd = NoCmd
    /\ sent = NoMsg
    /\ removed = {}
    /\ nfail = 0
    /\ nrestart = 0
    /\ run = <<>>
    /\ run_ok = TRUE

Init == ProcessStart /\ slice_call = NoCall

Next ==
    \/ \E j \in JobIds : Fire(j)
    \/ \E j \in JobIds : TickEnter(j)
    \/ \E j \in JobIds : TickFinish(j)
    \/ \E u \in Users : start_cmd(u)
    \/ \E u \in Users, vid \in VideoIds \cup {None}, meta \in Metas : add_cmd(u, vid, meta)
    \/ \E u \in Users, x \in IntervalInputs : setinterval_cmd(u, x)
    \/ \E u \in Users, x \in ChunkInputs : setchunk_cmd(u, x)
    \/ \E u \in Users : startsession_cmd(u)
    \/ \E u \in Users : stop_cmd(u)
    \/ \E u \in Users : status_cmd(u)
    \/ \E u \in Users : callbacks_stop(u)
    \/ \E u \in Users : callbacks_skip(u)
    \/ Resume
    \/ startsession_refused
    \/ Restart

Spec == Init /\ [][Next]_vars

\* The program with a user who neither stops nor reconfigures nor starts anew
\* a session that is running: /add, /setinterval, /setchunk, /startsession,
\* /stop and the "stop" button come only while no session is active, no
\* timer is armed and no tick is under way.
NoSessionActive ==
    /\ \A u \in DOMAIN STATE_users : ~STATE_users[u].active
    /\ Armed(job_queue) = {}
    /\ \A j \in JobIds : ~InFlight(j)

UndisturbedNext ==
    \/ \E j \in JobIds : Fire(j)
    \/ \E j \in JobIds : TickEnter(j)
    \/ \E j \in JobIds : TickFinish(j)
    \/ \E u \in Users : start_cmd(u)
    \/ \E u \in Users : status_cmd(u)
    \/ \E u \in Users : callbacks_skip(u)
    \/ Resume
    \/ startsession_refused
    \/ Restart
    \/ \E u \in Users : NoSessionActive /\ startsession_cmd(u)
    \/ \E u \in Users, vid \in VideoIds \cup {None}, meta \in Metas :
         NoSessionActive /\ add_cmd(u, vid, meta)
    \/ \E u \in Users, x \in IntervalInputs : NoSessionActive /\ setinterval_cmd(u, x)
    \/ \E u \in Users, x \in ChunkInputs : NoSessionActive /\ setchunk_cmd(u, x)
    \/ \E u \in Users : NoSessionActive /\ stop_cmd(u)
    \/ \E u \in Users : NoSessionActive /\ callbacks_stop(u)

\* The JobQueue runs a job that is due, and the event loop runs a task that
\* can go on: one let into the lock, one whose send_message has returned.
Fairness ==
    /\ WF_vars(\E j \in JobIds : Fire(j))
    /\ \A j \in JobIds : WF_vars(TickEnter(j))
    /\ \A j \in JobIds : WF_vars(TickFinish(j))
    /\ WF_vars(Resume)
    /\ WF_vars(startsession_refused)

FairSpec == Init /\ [][UndisturbedNext]_vars /\ Fairness

\* slice_transcript_text on its own, over the calls.
SliceInit ==
    /\ ProcessStart
    /\ slice_call \in {c \in Calls : c.start <= c.mid /\ c.mid <= c.end}

SliceNext ==
    \/ SliceWindows
    \/ \E max_chars \in MaxCharsInputs : SliceCut(max_chars)

SliceSpec == SliceInit /\ [][SliceNext]_vars

(* ------------------------------- claims ------------------------------- *)

TheUser == CHOOSE u \in Users : TRUE

\* The step is made: by the handler that waited for the lock, by a tick
\* taking the lock, by a tick whose send_message returned.
HandlerResumes(ops) ==
    /\ cmd.pc = "wait"
    /\ cmd.op \in ops
    /\ Resume

TakesLock(j) == (LockFree /\ Fire(j)) \/ TickEnter(j)

\* C1 as stated: after a stop and a tick that ran concurrently have both
\* completed, it is never the case that the tick emitted a card and the
\* session is deactivated.  (The stop waited for the lock while the tick was
\* in flight; the step completes the stop.)
C1_NeverCardAndDeactivated ==
    [][(HandlerResumes(StopOps) /\ cmd.note = "card")
          => STATE_users'[cmd.user].active]_vars

\* C1 as amended: the order in which a concurrent stop and tick take the lock
\* decides the card.  A tick let in after the stop finds the session inactive
\* and sends no card; a card goes out only from a tick let in before the
\* stop; and once the stop has completed the session is inactive either way.
C1_LockOrderDecidesCard ==
    /\ [](\A j \in JobIds : ticks[j].race = "stop_first"
              => ticks[j].pc \in {"wait", "send_inactive"})
    /\ [][HandlerResumes(StopOps)
              => /\ cmd.user \in DOMAIN STATE_users' => ~STATE_users'[cmd.user].active
                 /\ \A j \in JobIds : ticks'[j].pc # "send_card"]_vars

\* A tick that came to the lock after a stop has been let in: no card.
C1_Witness ==
    \E j \in JobIds : ticks[j].race = "stop_first" /\ ticks[j].pc = "send_inactive"

\* C2: a user never has more than one armed timer job, and a start that finds
\* a timer armed arms the new one only with the old one cancelled: no job of
\* the user armed before the start is still armed after it.
C2_AtMostOneTimer ==
    /\ [](\A u \in Users : Cardinality(get_jobs_by_name(job_queue, JobName(u))) <= 1)
    /\ [][\A u \in Users :
            LET before == get_jobs_by_name(job_queue, JobName(u))
                after == get_jobs_by_name(job_queue', JobName(u))
            IN after \ before # {} => after \cap before = {}]_vars

\* A start has just replaced an armed timer by a new one.
C2_Witness ==
    /\ removed # {}
    /\ Cardinality(Armed(job_queue)) = 1
    /\ \A j \in Armed(job_queue) : job_queue[j].first

\* The session send_next_card finds for job j is missing or not active.
FindsInactive(j) ==
    LET u == IF ticks[j].pc = "wait" THEN ticks[j].user ELSE job_queue[j].user
    IN u \notin DOMAIN STATE_users \/ ~STATE_users[u].active

C4_CardWindow ==
    /\ [](\A j \in JobIds : ticks[j].pc = "send_card" =>
            LET s == STATE_users[ticks[j].user] IN
            /\ ticks[j].start = s.current_start_sec
            /\ ticks[j].end = Min(s.current_start_sec + s.chunk_sec, s.duration))
    /\ [][\A j \in JobIds : (ticks[j].pc = "send_card" /\ TickFinish(j)) =>
            LET s == STATE_users[ticks[j].user]
                s2 == STATE_users'[ticks[j].user]
            IN /\ sent' = Msg("card", s.current_start_sec,
                              Min(s.current_start_sec + s.chunk_sec, s.duration))
               /\ s2.current_start_sec = sent'.end
               /\ s2.current_start_sec <= s2.duration]_vars

\* A card whose window the duration cut short is out and the cursor stands
\* at its end.
C4_Witness ==
    /\ sent.kind = "card"
    /\ TheUser \in DOMAIN STATE_users
    /\ STATE_users[TheUser].current_start_sec = sent.end
    /\ sent.end = STATE_users[TheUser].duration
    /\ sent.end < sent.start + STATE_users[TheUser].chunk_sec

\* The user whose session send_next_card of job j looks at when it takes the
\* lock in this step.
TickUser(j) == IF ticks[j].pc = "wait" THEN ticks[j].user ELSE job_queue[j].user

\* The step is /startsession of user u inside the lock.
StartStep(u) ==
    \/ LockFree /\ startsession_cmd(u)
    \/ HandlerResumes({"startsession"}) /\ cmd.user = u

\* C5 as stated: once the cursor equals totalDuration in an active session,
\* the next tick sets active to false, cancels the timer and emits no card;
\* a start issued after that resets the cursor to 0 and sets active to true.
C5_ExhaustedTickDeactivates ==
    [][/\ \A j \in JobIds :
            LET u == TickUser(j) IN
            /\ (/\ TakesLock(j)
                /\ u \in DOMAIN STATE_users
                /\ STATE_users[u].active
                /\ STATE_users[u].current_start_sec = STATE_users[u].duration)
                 => /\ ~STATE_users'[u].active
                    /\ ticks'[j].pc # "send_card"
                    /\ ticks'[j].pc = "idle" => ~job_queue'[j].armed
            /\ (ticks[j].pc \in {"send_finished", "send_novideo"} /\ TickFinish(j))
                 => sent'.kind # "card" /\ ~job_queue'[j].armed
       /\ \A u \in Users :
            (/\ StartStep(u)
             /\ u \in DOMAIN STATE_users
             /\ STATE_users[u].video_id # None
             /\ STATE_users[u].current_start_sec = STATE_users[u].duration)
              => /\ STATE_users'[u].current_start_sec = 0
                 /\ STATE_users'[u].active]_vars

\* C6: from cursor 0, with chunkSec c and totalDuration d > 0 kept as they
\* are, the cards of successive ticks are the windows [0, c), [c, 2c), ...:
\* the k-th is [(k-1)c, min(kc, d)), every window begins before d, the cursor
\* stands at the end of the last one, and the tick that finds the cursor at d
\* deactivates the session and emits no card.
C6_WindowSequence ==
    /\ [](\A u \in DOMAIN STATE_users : run_ok =>
            LET s == STATE_users[u] IN
            /\ \A k \in 1..Len(run) :
                 /\ run[k] = <<(k - 1) * s.chunk_sec, Min(k * s.chunk_sec, s.duration)>>
                 /\ run[k][1] < s.duration
            /\ s.current_start_sec = IF run = <<>> THEN 0 ELSE run[Len(run)][2])
    /\ [][\A j \in JobIds :
            LET u == TickUser(j) IN
            (/\ TakesLock(j)
             /\ u \in DOMAIN STATE_users
             /\ STATE_users[u].active
             /\ STATE_users[u].duration > 0
             /\ STATE_users[u].current_start_sec >= STATE_users[u].duration)
              => /\ ~STATE_users'[u].active
                 /\ ticks'[j].pc \notin {"send_card", "send_inactive", "send_novideo"}]_vars

\* The three windows of 200 seconds in chunks of 90 are out, and the fourth
\* tick has deactivated the session and sent the completion notice.
C6_Witness ==
    /\ run_ok
    /\ run = <<(<<0, 90>>), (<<90, 180>>), (<<180, 200>>)>>
    /\ sent.kind = "finished"
    /\ ~STATE_users[TheUser].active
    /\ STATE_users[TheUser].current_start_sec = 200

\* C7 as stated: in every state the program reaches with no operation inside
\* its critical section, after a restart too, a session is active if and
\* only if a timer job is armed for its user.
C7_ActiveIffTimerArmed ==
    ~STATE_LOCK.locked =>
        \A u \in DOMAIN STATE_users :
            STATE_users[u].active <=> get_jobs_by_name(job_queue, JobName(u)) # {}

\* C8: a session without a video is never active and has no timer, and a
\* start on it is refused: it arms nothing, leaves the session inactive, and
\* the refusal is what the user is sent.
C8_NoVideoNeverActive ==
    /\ [](\A u \in DOMAIN STATE_users : STATE_users[u].video_id = None =>
            /\ ~STATE_users[u].active
            /\ get_jobs_by_name(job_queue, JobName(u)) = {})
    /\ [][/\ \A u \in Users :
               (StartStep(u) /\ (u \in DOMAIN STATE_users => STATE_users[u].video_id = None))
                 => /\ cmd'.pc = "reply_locked"
                    /\ ~STATE_users'[u].active
                    /\ job_queue' = job_queue
          /\ (cmd.pc = "reply_locked" /\ startsession_refused)
                 => /\ sent' = Msg("start_refused", 0, 0)
                    /\ UNCHANGED <<STATE_users, job_queue>>]_vars

\* A start on a session without a video has been refused.
C8_Witness ==
    /\ sent.kind = "start_refused"
    /\ STATE_users[TheUser].video_id = None
    /\ ~STATE_users[TheUser].active
    /\ Armed(job_queue) = {}

\* C9 as stated: a failed flush never aborts the operation that made it.  The
\* step whose save_db failed goes on as with a successful one: a tick is
\* where it would be, same session, and a handler's reply is sent.
C9_FlushFailureHarmless ==
    [][nfail' > nfail =>
         /\ \A j \in JobIds : TakesLock(j) =>
              LET r == TickEntry(STATE_users, TickUser(j), "ok") IN
              /\ STATE_users' = r.users
              /\ ticks'[j].pc = r.pc
         /\ (\A j \in JobIds : ~TakesLock(j) /\ ~TickFinish(j))
              => sent' = Msg("reply", 0, 0)]_vars

\* The session one tick of the timer leaves, and its message.
AfterOneTick(S, u) ==
    LET e == TickEntry(S, u, "ok") IN
    IF e.pc = "send_card" THEN TickExit(e.users, u, e.pc, WindowEnd(S[u])).users
    ELSE e.users

MessageOfOneTick(S, u) ==
    LET e == TickEntry(S, u, "ok") IN
    IF e.pc = "send_card"
    THEN Msg("card", S[u].current_start_sec, WindowEnd(S[u]))
    ELSE TickMessage([pc |-> e.pc])

\* C10 as stated: skip, from any session state, does to the session what one
\* tick of the timer does in that state, emits what that tick emits, and
\* leaves the armed timer as it is.
C10_SkipIsOneTick ==
    [][\A u \in Users : callbacks_skip(u) =>
         /\ STATE_users' = AfterOneTick(STATE_users, u)
         /\ sent' = MessageOfOneTick(STATE_users, u)
         /\ job_queue' = job_queue]_vars

\* The step is /stop, or the "stop" button, of user u inside the lock.
StopStep(u) ==
    \/ LockFree /\ (stop_cmd(u) \/ callbacks_stop(u))
    \/ HandlerResumes(StopOps) /\ cmd.user = u

\* The session of u is idle: it is not active and no timer is armed for u.
Idle(u) ==
    /\ u \in DOMAIN STATE_users
    /\ ~STATE_users[u].active
    /\ get_jobs_by_name(job_queue, JobName(u)) = {}

\* C11 as stated: after stop the session is not active, no timer is armed
\* for it and its timer handle is cleared; and a stop of a session that is
\* already idle (so also the second of two stops in a row) leaves every
\* field of the session and the set of armed timers as they were.
C11_StopIdempotent ==
    [][\A u \in Users : StopStep(u) =>
         /\ u \in DOMAIN STATE_users' =>
              /\ ~STATE_users'[u].active
              /\ STATE_users'[u].job_name = None
              /\ get_jobs_by_name(job_queue', JobName(u)) = {}
         /\ Idle(u) =>
              /\ STATE_users'[u] = STATE_users[u]
              /\ Armed(job_queue') = Armed(job_queue)]_vars

\* C12: after a start that is not refused the session is active, exactly one
\* timer is armed for the user, its period is the session's intervalSec and
\* its first run is due at once, and the cursor is 0 if it had reached
\* totalDuration and is where it was otherwise.
C12_StartArmsOneTimer ==
    [][\A u \in Users :
         (/\ StartStep(u)
          /\ u \in DOMAIN STATE_users
          /\ STATE_users[u].video_id # None)
           => LET s == STATE_users[u]
                  s2 == STATE_users'[u]
                  js == get_jobs_by_name(job_queue', JobName(u))
              IN /\ s2.active
                 /\ Cardinality(js) = 1
                 /\ \A j \in js : /\ job_queue'[j].interval = s2.interval_sec
                                  /\ job_queue'[j].first
                                  /\ j \notin Armed(job_queue)
                 /\ s2.current_start_sec =
                      IF s.current_start_sec = s.duration THEN 0
                      ELSE s.current_start_sec]_vars

\* A start has just armed the timer, not yet run, with the interval the user
\* chose; the session is active with its cursor at 0.
C12_Witness ==
    /\ TheUser \in DOMAIN STATE_users
    /\ STATE_users[TheUser].active
    /\ STATE_users[TheUser].current_start_sec = 0
    /\ STATE_users[TheUser].duration > 0
    /\ STATE_users[TheUser].interval_sec = MinInterval
    /\ db = STATE_users
    /\ \E j \in JobIds : /\ Armed(job_queue) = {j}
                         /\ job_queue[j].first
                         /\ job_queue[j].interval = MinInterval

\* The text x is no duration parse_duration_str can read.
Unparseable(x) == IntRaises(x) \/ ~parse_duration_str(x).parsed

\* C13 as stated: intervalSec >= 30 and 30 <= chunkSec <= 600 in every
\* session, and a /setinterval or /setchunk whose argument is unparseable or
\* outside these bounds is rejected, with the rejection sent to the user, and
\* leaves every field of the session as it was.
C13_BoundsEnforced ==
    /\ [](\A u \in DOMAIN STATE_users :
            /\ STATE_users[u].interval_sec >= MinInterval
            /\ STATE_users[u].chunk_sec >= MinChunk
            /\ STATE_users[u].chunk_sec <= MaxChunk)
    /\ [][\A u \in Users :
            /\ \A x \in IntervalInputs :
                 (/\ setinterval_cmd(u, x)
                  /\ Unparseable(x) \/ parse_duration_str(x).secs < MinInterval)
                   => STATE_users' = STATE_users /\ sent' = Msg("reply", 0, 0)
            /\ \A x \in ChunkInputs :
                 (/\ setchunk_cmd(u, x)
                  /\ \/ Unparseable(x)
                     \/ parse_duration_str(x).secs < MinChunk
                     \/ parse_duration_str(x).secs > MaxChunk)
                   => STATE_users' = STATE_users /\ sent' = Msg("reply", 0, 0)]_vars

\* C14 as stated: under fair firing of the timer, an active session with a
\* configured video of positive duration that is neither stopped nor
\* reconfigured eventually has its cursor at totalDuration and is inactive
\* with no timer armed.
C14_EventuallyCompletes ==
    \A u \in Users :
        (/\ u \in DOMAIN STATE_users
         /\ STATE_users[u].active
         /\ STATE_users[u].video_id # None
         /\ STATE_users[u].duration > 0)
        ~> (/\ u \in DOMAIN STATE_users
            /\ STATE_users[u].current_start_sec = STATE_users[u].duration
            /\ ~STATE_users[u].active
            /\ get_jobs_by_name(job_queue, JobName(u)) = {})

\* C15 as stated: while the lock is held no call to the transport is in
\* progress: no tick is in its send_message and no handler in its reply.
C15_NoSendUnderLock ==
    STATE_LOCK.locked =>
        /\ \A j \in JobIds : ticks[j].pc \notin Sending
        /\ cmd.pc # "reply_locked"

\* The ticks that are past `async with STATE_LOCK` and not yet at their end.
TicksInside == {j \in JobIds : ticks[j].pc \in Sending}

\* C16: two ticks of a user never execute concurrently.  At most one tick is
\* inside send_next_card's locked body at a time, it holds the lock, nothing
\* else writes the session while it is there, so the card it sends begins at
\* the cursor the previous writer left and is not empty; and the cards of a
\* run each begin where the one before ended, so none is sent twice.
C16_TicksSerialized ==
    /\ [](Cardinality(TicksInside) <= 1)
    /\ [](TicksInside # {} => STATE_LOCK.locked)
    /\ [](\A j \in JobIds : ticks[j].pc = "send_card" =>
            /\ ticks[j].start = STATE_users[ticks[j].user].current_start_sec
            /\ ticks[j].start < ticks[j].end)
    /\ [](\A k \in 1..Len(run) :
            /\ run[k][1] < run[k][2]
            /\ k > 1 => run[k][1] = run[k - 1][2])
    /\ [][TicksInside # {} /\ TicksInside' # {} => STATE_users' = STATE_users]_vars

\* The tick of a timer that /startsession has replaced is sending its card
\* while the first tick of the new timer waits for the lock.
C16_Witness ==
    \E j, k \in JobIds :
        /\ j # k
        /\ ticks[j].pc = "send_card"
        /\ ~job_queue[j].armed
        /\ ticks[k].pc = "wait"
        /\ ticks[k].user = ticks[j].user
        /\ job_queue[k].armed

\* The step is /add of user u inside the lock.
AddStep(u) ==
    \/ LockFree /\ \E vid \in VideoIds, meta \in Metas : add_cmd(u, vid, meta)
    \/ HandlerResumes({"add"}) /\ cmd.user = u

\* C17: 0 <= cursorSec <= totalDuration in every state, and no operation of
\* the running program lowers the cursor except /add and a /startsession
\* that finds it at totalDuration, which put it to 0: a tick, skip, stop,
\* /setinterval, /setchunk and /status leave it or raise it.
C17_CursorMonotone ==
    /\ [](\A u \in DOMAIN STATE_users :
            /\ 0 <= STATE_users[u].current_start_sec
            /\ STATE_users[u].current_start_sec <= STATE_users[u].duration)
    /\ [][nrestart' = nrestart =>
            \A u \in DOMAIN STATE_users :
              /\ u \in DOMAIN STATE_users'
              /\ STATE_users'[u].current_start_sec < STATE_users[u].current_start_sec
                   => /\ STATE_users'[u].current_start_sec = 0
                      /\ \/ AddStep(u)
                         \/ /\ StartStep(u)
                            /\ STATE_users[u].current_start_sec = STATE_users[u].duration]_vars

\* A /startsession on a finished video has put the cursor back to 0 and armed
\* the timer; its save_db failed, so DB_FILE still holds the cursor at the
\* duration.
C17_Witness ==
    /\ TheUser \in DOMAIN STATE_users
    /\ TheUser \in DOMAIN db
    /\ STATE_users[TheUser].active
    /\ STATE_users[TheUser].current_start_sec = 0
    /\ STATE_users[TheUser].duration > 0
    /\ db[TheUser].current_start_sec = STATE_users[TheUser].duration
    /\ db[TheUser].duration = STATE_users[TheUser].duration
    /\ ~db[TheUser].active
    /\ \E j \in Armed(job_queue) : job_queue[j].first

\* C18 as stated: the period of a timer armed for a user is that user's
\* current intervalSec, also after a /setinterval during an active session.
C18_PeriodIsInterval ==
    \A j \in Armed(job_queue) :
        /\ job_queue[j].user \in DOMAIN STATE_users
        /\ job_queue[j].interval = STATE_users[job_queue[j].user].interval_sec


(* ---- slice_transcript_text: windows and the cut ---- *)

WindowsTaken == slice_call.pc = "windows"
CutTaken == slice_call.pc = "cut"

\* The segment [s, s+d) lies fully outside [start, end).
FullyOutside(item, start, end) ==
    item.start + item.duration <= start \/ item.start >= end

InsideOnly(transcript, start, end) ==
    LET Inside(item) == ~FullyOutside(item, start, end) IN
    SelectSeq(transcript, Inside)

\* Segments fully outside the range add nothing to any of the three outputs.
OutsideNeverIncluded ==
    LET c == slice_call IN
    /\ c.left = slice_transcript_text(InsideOnly(c.transcript, c.start, c.mid),
                                      c.start, c.mid, DefaultMaxChars)
    /\ c.right = slice_transcript_text(InsideOnly(c.transcript, c.mid, c.end),
                                       c.mid, c.end, DefaultMaxChars)
    /\ c.whole = slice_transcript_text(InsideOnly(c.transcript, c.start, c.end),
                                       c.start, c.end, DefaultMaxChars)

\* The transcript is in order of start.
InTimeOrder(transcript) ==
    \A i \in 1..Len(transcript), k \in 1..Len(transcript) :
        i < k => transcript[i].start <= transcript[k].start

\* The segment begins before mid and ends after it.
OverlapsMid(item, mid) ==
    item.start < mid /\ mid < item.start + item.duration

\* No segment overlaps mid, and no segment of zero length begins at mid.
SplitsAt(transcript, mid) ==
    \A i \in 1..Len(transcript) :
        /\ ~OverlapsMid(transcript[i], mid)
        /\ ~(transcript[i].duration = 0 /\ transcript[i].start = mid)

\* The two texts joined by a space, an empty one left out.
JoinedWindows(left, right) == join(SelectSeq(<<left, right>>, IsText))

\* C19 (as stated): for any transcript and start <= mid <= end, with maxChars
\* unbounded, slice(start, mid), a space and slice(mid, end) make up
\* slice(start, end), and no segment fully outside [start, end) is included.
C19_WindowsConcatenate ==
    WindowsTaken =>
        /\ slice_call.left \o <<" ">> \o slice_call.right = slice_call.whole
        /\ OutsideNeverIncluded

\* C19 (amended): for a transcript in order of start and start <= mid <= end
\* such that no segment begins before mid and ends after it and no segment of
\* zero length begins at mid, with maxChars unbounded, slice(start, mid) and
\* slice(mid, end), joined by a space when both are non-empty, make up
\* slice(start, end); a segment that begins before mid and ends after it is
\* included in both slice(start, mid) and slice(mid, end); and no segment
\* fully outside [start, end) is ever included.
C19_WindowsConcatenateWhenSplit ==
    WindowsTaken =>
        LET c == slice_call IN
        /\ (InTimeOrder(c.transcript) /\ SplitsAt(c.transcript, c.mid))
               => JoinedWindows(c.left, c.right) = c.whole
        /\ \A i \in 1..Len(c.transcript) :
               OverlapsMid(c.transcript[i], c.mid) =>
                   /\ slice_transcript_text(<<c.transcript[i]>>, c.start, c.mid,
                                            DefaultMaxChars) = strip(c.transcript[i].text)
                   /\ slice_transcript_text(<<c.transcript[i]>>, c.mid, c.end,
                                            DefaultMaxChars) = strip(c.transcript[i].text)
        /\ OutsideNeverIncluded

\* Two windows with different texts, cut from a transcript in order that
\* splits at mid, and their union.
C19_Witness ==
    /\ WindowsTaken
    /\ InTimeOrder(slice_call.transcript)
    /\ SplitsAt(slice_call.transcript, slice_call.mid)
    /\ slice_call.left # <<>>
    /\ slice_call.right # <<>>
    /\ slice_call.whole = slice_call.left \o <<" ">> \o slice_call.right
    /\ slice_call.left # slice_call.right

\* The last three characters of the text are the ellipsis marker.
EndsWithEllipsis(text) ==
    Len(text) >= 3 /\ SubSeq(text, Len(text) - 2, Len(text)) = Ellipsis

====
